---------------------------- MODULE Spec2Model ----------------------------
(***************************************************************************)
(* A model of the search_api client library (src/search_api/client.py,     *)
(* src/search_api/models.py): the three search operations of SearchAPI,    *)
(* their input validation, the TTL/LRU result cache and the transport's    *)
(* translation of HTTP outcomes into exceptions.                           *)
(*                                                                         *)
(* Python strings are sequences of one-character strings, so that the      *)
(* regular expressions, str.lower, str.strip and the f-string cache keys   *)
(* are computed character by character.                                    *)
(***************************************************************************)
EXTENDS Integers, Sequences, FiniteSets, TLC

(***************************************************************************)
(* Bounds of the model.                                                    *)
(***************************************************************************)
\* the cache's capacity, TTLCache(maxsize=1000, ...), scaled down
MaxSize == 2
\* config.cache_ttl (3600 by default), in clock ticks
Ttl == 2
\* the clock (time.monotonic) runs from 0 to MaxTime
MaxTime == 3
\* the time one step inside a handler may take
MaxDelay == 1
\* HTTP requests issued in one behaviour
MaxRequests == 3
\* the items of the "results" list of a domain response
MaxResults == 2
\* the threads that share one client (the workers of a caller's pool)
MaxThreads == 2
\* the emails that the example's pool processes
MaxEmails == 2
\* the lengths of the emails, phones and domains enumerated exhaustively
MaxEmailLen == 5
MaxPhoneLen == 3
MaxDomainLen == 4
\* the length of the addresses enumerated exhaustively
MaxAddressLen == 5

(***************************************************************************)
(* Characters and strings.                                                 *)
(***************************************************************************)
UpperLetters ==
    <<"A","B","C","D","E","F","G","H","I","J","K","L","M",
      "N","O","P","Q","R","S","T","U","V","W","X","Y","Z">>

LowerLetters ==
    <<"a","b","c","d","e","f","g","h","i","j","k","l","m",
      "n","o","p","q","r","s","t","u","v","w","x","y","z">>

Letters == { LowerLetters[i] : i \in 1..26 }

Digits == {"0","1","2","3","4","5","6","7","8","9"}

Whitespace == {" ", "\t", "\n"}

\* every string over alphabet A of length at most n
StringsUpTo(A, n) == UNION { [1..k -> A] : k \in 0..n }

\* s[i:] and s[:i] of Python, 1-based: characters from i on, characters before i
From(s, i) == SubSeq(s, i, Len(s))

Upto(s, i) == SubSeq(s, 1, i)

\* str.lower, on ASCII
LowerChar(c) ==
    IF \E i \in 1..26 : UpperLetters[i] = c
    THEN LowerLetters[CHOOSE i \in 1..26 : UpperLetters[i] = c]
    ELSE c

Lower(s) == [i \in 1..Len(s) |-> LowerChar(s[i])]

\* str.upper, on ASCII
UpperChar(c) ==
    IF \E i \in 1..26 : LowerLetters[i] = c
    THEN UpperLetters[CHOOSE i \in 1..26 : LowerLetters[i] = c]
    ELSE c

Upper(s) == [i \in 1..Len(s) |-> UpperChar(s[i])]

\* str.strip: leading and trailing whitespace removed
Strip(s) ==
    LET keep == { i \in 1..Len(s) : s[i] \notin Whitespace }
    IN  IF keep = {} THEN <<>>
        ELSE SubSeq(s, CHOOSE i \in keep : \A j \in keep : i <= j,
                       CHOOSE i \in keep : \A j \in keep : j <= i)

\* str(b) of a bool, as the f-string formats it
BoolStr(b) == IF b THEN <<"T","r","u","e">> ELSE <<"F","a","l","s","e">>

(***************************************************************************)
(* Validation.                                                             *)
(***************************************************************************)
\* EmailMatch with the pattern cut after the "@": r"[^@]+@[^@]+"
EmailMatchNoDot(s) ==
    \E i \in 2..(Len(s)-1) :
        /\ s[i] = "@"
        /\ \A k \in 1..(i-1) : s[k] # "@"
        /\ s[i+1] # "@"

\* re.match(r"[^@]+@[^@]+\.[^@]+", email): the pattern matches a PREFIX of
\* the string (re.match anchors the start only).
\*   [^@]+  s[1..i-1], non-empty, no "@"       @    s[i]
\*   [^@]+  s[i+1..j-1], non-empty, no "@"     \.   s[j]
\*   [^@]+  s[j+1], at least one character that is not "@"
EmailMatch(s) ==
    \E i \in 2..Len(s) :
        /\ s[i] = "@"
        /\ \A k \in 1..(i-1) : s[k] # "@"
        /\ \E j \in (i+2)..(Len(s)-1) :
              /\ s[j] = "."
              /\ \A k \in (i+1)..(j-1) : s[k] # "@"
              /\ s[j+1] # "@"

AlnumLower == Letters \cup Digits

\* [a-z0-9]+([\-\.]{1}[a-z0-9]+)* on the whole of p
HostLabels(p) ==
    /\ Len(p) >= 1
    /\ \A k \in 1..Len(p) : p[k] \in AlnumLower \cup {"-", "."}
    /\ p[1] \in AlnumLower
    /\ p[Len(p)] \in AlnumLower
    /\ \A k \in 1..(Len(p)-1) : p[k] \in {"-", "."} => p[k+1] \in AlnumLower

\* DomainMatch with a final label of one letter allowed: \.[a-z]{1,}$
DomainMatchShortLabel(s) ==
    \E m \in 2..(Len(s)-1) :
        /\ s[m] = "."
        /\ \A k \in (m+1)..Len(s) : s[k] \in Letters
        /\ HostLabels(Upto(s, m-1))

\* re.match(r"^[a-z0-9]+([\-\.]{1}[a-z0-9]+)*\.[a-z]{2,}$", domain)
DomainMatch(s) ==
    \E m \in 2..(Len(s)-2) :
        /\ s[m] = "."
        /\ \A k \in (m+1)..Len(s) : s[k] \in Letters
        /\ HostLabels(Upto(s, m-1))

\* Major email domains that are not allowed for domain search
MAJOR_DOMAINS ==
    { <<"g","m","a","i","l",".","c","o","m">>,
      <<"y","a","h","o","o",".","c","o","m">>,
      <<"o","u","t","l","o","o","k",".","c","o","m">>,
      <<"h","o","t","m","a","i","l",".","c","o","m">>,
      <<"a","o","l",".","c","o","m">>,
      <<"i","c","l","o","u","d",".","c","o","m">>,
      <<"l","i","v","e",".","c","o","m">>,
      <<"m","s","n",".","c","o","m">>,
      <<"c","o","m","c","a","s","t",".","n","e","t">>,
      <<"m","e",".","c","o","m">>,
      <<"m","a","c",".","c","o","m">>,
      <<"a","t","t",".","n","e","t">>,
      <<"v","e","r","i","z","o","n",".","n","e","t">>,
      <<"p","r","o","t","o","n","m","a","i","l",".","c","o","m">>,
      <<"z","o","h","o",".","c","o","m">>,
      <<"y","a","n","d","e","x",".","c","o","m">>,
      <<"m","a","i","l",".","c","o","m">>,
      <<"g","m","x",".","c","o","m">>,
      <<"r","o","c","k","e","t","m","a","i","l",".","c","o","m">>,
      <<"y","a","h","o","o",".","c","o",".","u","k">>,
      <<"b","t","i","n","t","e","r","n","e","t",".","c","o","m">>,
      <<"b","e","l","l","s","o","u","t","h",".","n","e","t">> }

(***************************************************************************)
(* Phone numbers.  phonenumbers.parse(phone_str, "US") is a library call;  *)
(* it is modelled for North American numbers: the candidate starts at the  *)
(* first digit or "+", must hold enough digits and no letter, a leading    *)
(* "+" must be followed by a country code, and a national number is valid  *)
(* when it has the shape NXX NXX XXXX.                                     *)
(***************************************************************************)
DigitsOf(s) == SelectSeq(s, LAMBDA c : c \in Digits)

\* phonenumbers.is_valid_number for country code 1
NanpValid(n) ==
    /\ Len(n) = 10
    /\ n[1] \notin {"0", "1"}
    /\ n[4] \notin {"0", "1"}

\* phonenumbers.parse: [ok |-> FALSE] stands for NumberParseException
LibParse(s) ==
    LET starts == { i \in 1..Len(s) : s[i] \in Digits \cup {"+"} }
        cand   == IF starts = {} THEN <<>>
                  ELSE From(s, CHOOSE i \in starts : \A j \in starts : i <= j)
        d      == DigitsOf(cand)
        fail   == [ok |-> FALSE, nsn |-> <<>>, valid |-> FALSE]
    IN  IF \/ Len(d) < 2
           \/ Len(d) > 17
           \/ \E k \in 1..Len(cand) : cand[k] \in Letters \/ LowerChar(cand[k]) # cand[k]
        THEN fail
        ELSE IF cand[1] = "+"
        THEN IF Len(d) <= 2 \/ d[1] # "1"
             THEN fail
             ELSE [ok |-> TRUE, nsn |-> Tail(d), valid |-> NanpValid(Tail(d))]
        ELSE IF d[1] = "1" /\ NanpValid(Tail(d))
             THEN [ok |-> TRUE, nsn |-> Tail(d), valid |-> TRUE]
             ELSE [ok |-> TRUE, nsn |-> d, valid |-> NanpValid(d)]

\* PhoneNumber(number, country_code="US", is_valid=True)
PhoneNumber(number, is_valid) ==
    [number |-> number, country_code |-> "US", is_valid |-> is_valid]

\* _parse_phone_number with the except clause leaving is_valid at its default
ParsePhoneNumberDefaultValid(phone_str) ==
    LET p == LibParse(phone_str)
    IN  IF p.ok
        THEN PhoneNumber(<<"+", "1">> \o p.nsn, p.valid)
        ELSE PhoneNumber(phone_str, TRUE)

\* SearchAPI._parse_phone_number
ParsePhoneNumber(phone_str) ==
    LET p == LibParse(phone_str)
    IN  IF p.ok
        THEN PhoneNumber(<<"+", "1">> \o p.nsn, p.valid)
        ELSE PhoneNumber(phone_str, FALSE)

(***************************************************************************)
(* The parsed JSON of a response: an object is a function from the names   *)
(* of its members to their values, an array a sequence.  The responses of  *)
(* the model hold a name, a date of birth, phone numbers, extra            *)
(* information and, for a domain, a list of results; none holds addresses. *)
(***************************************************************************)
\* dict.get(k, default)
Get(d, k, default) == IF k \in DOMAIN d THEN d[k] ELSE default

DigitValue(c) ==
    CHOOSE n \in 0..9 : <<"0","1","2","3","4","5","6","7","8","9">>[n + 1] = c

RECURSIVE Number(_)
Number(s) ==
    IF s = <<>> THEN 0
    ELSE 10 * Number(SubSeq(s, 1, Len(s) - 1)) + DigitValue(s[Len(s)])

\* a JSON object without members
NoData == [k \in {} |-> ""]

\* None where a date is expected
NoDate == [year |-> 0, month |-> 0, day |-> 0]

\* dateutil's parse(s).date(), for a date written YYYY-MM-DD
ParseDate(s) ==
    [year |-> Number(SubSeq(s, 1, 4)), month |-> Number(SubSeq(s, 6, 7)),
     day |-> Number(SubSeq(s, 9, 10))]

(***************************************************************************)
(* Addresses: _format_address and _parse_address.  An address of a         *)
(* response is a string or a JSON object.                                  *)
(***************************************************************************)
STREET_TYPE_MAP ==
    { << <<"s","t">>, <<"S","t","r","e","e","t">> >>,
      << <<"a","v","e">>, <<"A","v","e","n","u","e">> >>,
      << <<"b","l","v","d">>, <<"B","o","u","l","e","v","a","r","d">> >>,
      << <<"r","d">>, <<"R","o","a","d">> >>,
      << <<"l","n">>, <<"L","a","n","e">> >>,
      << <<"d","r">>, <<"D","r","i","v","e">> >>,
      << <<"c","t">>, <<"C","o","u","r","t">> >>,
      << <<"t","e","r">>, <<"T","e","r","r","a","c","e">> >>,
      << <<"p","l">>, <<"P","l","a","c","e">> >>,
      << <<"w","a","y">>, <<"W","a","y">> >>,
      << <<"p","k","w","y">>, <<"P","a","r","k","w","a","y">> >>,
      << <<"c","i","r">>, <<"C","i","r","c","l","e">> >>,
      << <<"s","q">>, <<"S","q","u","a","r","e">> >>,
      << <<"h","w","y">>, <<"H","i","g","h","w","a","y">> >>,
      << <<"b","e","n","d">>, <<"B","e","n","d">> >>,
      << <<"c","o","v","e">>, <<"C","o","v","e">> >> }

STATE_ABBREVIATIONS ==
    { << <<"a","l">>, <<"A","L">> >>,
      << <<"a","k">>, <<"A","K">> >>,
      << <<"a","z">>, <<"A","Z">> >>,
      << <<"a","r">>, <<"A","R">> >>,
      << <<"c","a">>, <<"C","A">> >>,
      << <<"c","o">>, <<"C","O">> >>,
      << <<"c","t">>, <<"C","T">> >>,
      << <<"d","e">>, <<"D","E">> >>,
      << <<"f","l">>, <<"F","L">> >>,
      << <<"g","a">>, <<"G","A">> >>,
      << <<"h","i">>, <<"H","I">> >>,
      << <<"i","d">>, <<"I","D">> >>,
      << <<"i","l">>, <<"I","L">> >>,
      << <<"i","n">>, <<"I","N">> >>,
      << <<"i","a">>, <<"I","A">> >>,
      << <<"k","s">>, <<"K","S">> >>,
      << <<"k","y">>, <<"K","Y">> >>,
      << <<"l","a">>, <<"L","A">> >>,
      << <<"m","e">>, <<"M","E">> >>,
      << <<"m","d">>, <<"M","D">> >>,
      << <<"m","a">>, <<"M","A">> >>,
      << <<"m","i">>, <<"M","I">> >>,
      << <<"m","n">>, <<"M","N">> >>,
      << <<"m","s">>, <<"M","S">> >>,
      << <<"m","o">>, <<"M","O">> >>,
      << <<"m","t">>, <<"M","T">> >>,
      << <<"n","e">>, <<"N","E">> >>,
      << <<"n","v">>, <<"N","V">> >>,
      << <<"n","h">>, <<"N","H">> >>,
      << <<"n","j">>, <<"N","J">> >>,
      << <<"n","m">>, <<"N","M">> >>,
      << <<"n","y">>, <<"N","Y">> >>,
      << <<"n","c">>, <<"N","C">> >>,
      << <<"n","d">>, <<"N","D">> >>,
      << <<"o","h">>, <<"O","H">> >>,
      << <<"o","k">>, <<"O","K">> >>,
      << <<"o","r">>, <<"O","R">> >>,
      << <<"p","a">>, <<"P","A">> >>,
      << <<"r","i">>, <<"R","I">> >>,
      << <<"s","c">>, <<"S","C">> >>,
      << <<"s","d">>, <<"S","D">> >>,
      << <<"t","n">>, <<"T","N">> >>,
      << <<"t","x">>, <<"T","X">> >>,
      << <<"u","t">>, <<"U","T">> >>,
      << <<"v","t">>, <<"V","T">> >>,
      << <<"v","a">>, <<"V","A">> >>,
      << <<"w","a">>, <<"W","A">> >>,
      << <<"w","v">>, <<"W","V">> >>,
      << <<"w","i">>, <<"W","I">> >>,
      << <<"w","y">>, <<"W","Y">> >> }

\* dict.get(key, default) of a table of <<key, value>> pairs
TableGet(table, key, default) ==
    IF \E p \in table : p[1] = key
    THEN (CHOOSE p \in table : p[1] = key)[2]
    ELSE default

\* str.split(sep) for a one-character separator of seps: every piece, the
\* empty ones too
RECURSIVE SplitOn(_, _)
SplitOn(s, seps) ==
    IF \A i \in 1..Len(s) : s[i] \notin seps THEN <<s>>
    ELSE LET i == CHOOSE j \in 1..Len(s) :
                      s[j] \in seps /\ \A k \in 1..(j - 1) : s[k] \notin seps
         IN  <<Upto(s, i - 1)>> \o SplitOn(From(s, i + 1), seps)

\* str.split(): the words between runs of whitespace
Words(s) == SelectSeq(SplitOn(s, Whitespace), LAMBDA w : w # <<>>)

\* sep.join(pieces)
RECURSIVE Join(_, _)
Join(pieces, sep) ==
    IF pieces = <<>> THEN <<>>
    ELSE IF Len(pieces) = 1 THEN pieces[1]
    ELSE pieces[1] \o sep \o Join(Tail(pieces), sep)

\* str.title, on ASCII: a letter that follows a letter is put in lower case,
\* any other letter in upper case
Title(word) ==
    [i \in 1..Len(word) |->
        IF i > 1 /\ Lower(word)[i - 1] \in Letters
        THEN LowerChar(word[i]) ELSE UpperChar(word[i])]

\* str.isdigit, on ASCII
IsDigit(s) == s # <<>> /\ \A i \in 1..Len(s) : s[i] \in Digits

\* parts = [part.strip() for part in address_str.split(",") if part.strip()]
Parts(address_str) ==
    LET pieces == SplitOn(address_str, {","})
    IN  SelectSeq([i \in 1..Len(pieces) |-> Strip(pieces[i])],
                  LAMBDA part : part # <<>>)

\* the loop body with every word title-cased, the street suffixes too
FormattedPartTitled(part) ==
    LET words == Words(part)
    IN  Join([i \in 1..Len(words) |-> Title(words[i])], <<" ">>)

\* the loop body of lines 224-228: the words of one part, formatted and joined
FormattedPart(part) ==
    LET words == Words(part)
    IN  Join([i \in 1..Len(words) |->
                 TableGet(STREET_TYPE_MAP, Lower(words[i]), Title(words[i]))],
             <<" ">>)

\* formatted_parts after the loop of lines 223-228
FormattedParts(address_str) ==
    LET parts == Parts(address_str)
    IN  [i \in 1..Len(parts) |-> FormattedPart(parts[i])]

\* last_part with the word at place i replaced by its state code, when its
\* lower case is a state abbreviation, and joined again (lines 233-236,
\* 238-241)
StateAt(last_part, i) ==
    Join([last_part EXCEPT ![i] = TableGet(STATE_ABBREVIATIONS, Lower(@), @)],
         <<" ">>)

\* lines 231-241: the last part, given its words
LastPart(part, last_part) ==
    IF Len(last_part) > 1 /\ IsDigit(last_part[Len(last_part)])
    THEN StateAt(last_part, Len(last_part) - 1)
    ELSE IF last_part # <<>> THEN StateAt(last_part, Len(last_part))
    ELSE part

\* lines 230-241: the state abbreviation of the last part
WithState(formatted_parts) ==
    IF formatted_parts = <<>> THEN formatted_parts
    ELSE [formatted_parts EXCEPT ![Len(formatted_parts)] = LastPart(@, Words(@))]

\* SearchAPI._format_address
format_address(address_str) ==
    Join(WithState(FormattedParts(address_str)), <<",", " ">>)

\* an address of a response: a string (type "str", value the string) or a
\* JSON object (type "dict", value its members)
AddressData(type, value) == [type |-> type, value |-> value]

\* models.Address; <<>> stands for None
Address(street, city, state, postal_code, country, zestimate) ==
    [street |-> street, city |-> city, state |-> state,
     postal_code |-> postal_code, country |-> country, zestimate |-> zestimate]

\* Decimal(str(value)) raises decimal.InvalidOperation: value is not a
\* number (the zestimates of the model are digit strings or hold no digit)
DecimalRaises(value) == ~IsDigit(value)

\* SearchAPI._parse_address, when it returns
parse_address(address_data) ==
    IF address_data.type = "str"
    THEN Address(format_address(address_data.value), <<>>, <<>>, <<>>, <<>>, <<>>)
    ELSE LET d == address_data.value
         IN  Address(Get(d, "street", <<>>), Get(d, "city", <<>>),
                     Get(d, "state", <<>>), Get(d, "postal_code", <<>>),
                     Get(d, "country", <<>>),
                     IF "zestimate" \in DOMAIN d
                     THEN <<Number(d["zestimate"])>> ELSE <<>>)

\* the exception SearchAPI._parse_address raises, "" when it returns
ParseAddressRaises(address_data) ==
    IF /\ address_data.type = "dict"
       /\ "zestimate" \in DOMAIN address_data.value
       /\ DecimalRaises(address_data.value["zestimate"])
    THEN "InvalidOperation"
    ELSE ""

\* [self._parse_address(addr) for addr in addrs]
ParseAddresses(addrs) == [i \in 1..Len(addrs) |-> parse_address(addrs[i])]

\* the first exception of a sequence of evaluations, "" when none raised
FirstRaised(raised) ==
    IF \A i \in 1..Len(raised) : raised[i] = "" THEN ""
    ELSE raised[CHOOSE i \in 1..Len(raised) :
                   raised[i] # "" /\ \A j \in 1..(i - 1) : raised[j] = ""]

\* dateutil's parse(s) raises ParserError: s holds no digit (the dates of
\* the model are written YYYY-MM-DD or hold no digit)
ParserRaises(s) == \A i \in 1..Len(s) : s[i] \notin Digits

(***************************************************************************)
(* Result objects.  A result in the model is a reference, Object: id tells *)
(* one constructed object from another (0: no object), params are the      *)
(* query parameters of the request it was built from and made is the       *)
(* content it was constructed with.  The content an object has now is in   *)
(* the heap.  A name of "" and extra information of "" stand for None.     *)
(***************************************************************************)
Params(field, value, house_value, extra_info) ==
    [field |-> field, value |-> value,
     house_value |-> house_value, extra_info |-> extra_info]

NoParams == Params("", <<>>, FALSE, FALSE)

NoContent == [name |-> ""]

Object(id, kind, subject, params, made) ==
    [id |-> id, kind |-> kind, subject |-> subject, params |-> params,
     made |-> made]

NoObject == Object(0, "", <<>>, NoParams, NoContent)

NoPhone == [number |-> <<>>, country_code |-> "", is_valid |-> FALSE]

EmailSearchResult(email, name, dob, addresses, phone_numbers, extra_info) ==
    [email |-> email, name |-> name, dob |-> dob, addresses |-> addresses,
     phone_numbers |-> phone_numbers, extra_info |-> extra_info]

PhoneSearchResult(phone, name, dob, addresses, phone_numbers, extra_info) ==
    [phone |-> phone, name |-> name, dob |-> dob, addresses |-> addresses,
     phone_numbers |-> phone_numbers, extra_info |-> extra_info]

DomainSearchResult(domain, results, total_results) ==
    [domain |-> domain, results |-> results, total_results |-> total_results]

\* [self._parse_phone_number(num) for num in nums]
ParsePhoneNumbers(nums) == [i \in 1..Len(nums) |-> ParsePhoneNumber(nums[i])]

\* parse(response["dob"]).date() if response.get("dob") else None
DateOfBirth(response) ==
    IF Get(response, "dob", <<>>) # <<>> THEN ParseDate(response["dob"])
    ELSE NoDate

\* search_domain's EmailSearchResult(...) of one item of "results"
MapItem(item) ==
    EmailSearchResult(item["email"], Get(item, "name", ""), NoDate,
                      ParseAddresses(Get(item, "addresses", <<>>)),
                      ParsePhoneNumbers(Get(item, "phone_numbers", <<>>)), "")

\* search_domain's loop with the first item skipped
MapResultsSkipFirst(response) ==
    LET items == Get(response, "results", <<>>)
    IN  [i \in 1..(Len(items) - 1) |-> MapItem(items[i + 1])]

\* search_domain's loop over response.get("results", [])
MapResults(response) ==
    LET items == Get(response, "results", <<>>)
    IN  [i \in 1..Len(items) |-> MapItem(items[i])]

\* the content the three search operations construct from a response
Construct(kind, subject, phone_number, response) ==
    IF kind = "EmailSearchResult"
    THEN EmailSearchResult(subject, Get(response, "name", ""),
                           DateOfBirth(response),
                           ParseAddresses(Get(response, "addresses", <<>>)),
                           ParsePhoneNumbers(Get(response, "numbers", <<>>)),
                           Get(response, "extra_info", ""))
    ELSE IF kind = "PhoneSearchResult"
    THEN PhoneSearchResult(phone_number, Get(response, "name", ""),
                           DateOfBirth(response),
                           ParseAddresses(Get(response, "addresses", <<>>)),
                           ParsePhoneNumbers(Get(response, "numbers", <<>>)),
                           Get(response, "extra_info", ""))
    ELSE DomainSearchResult(subject, MapResults(response),
                            Len(MapResults(response)))

\* the exception raised while a search operation constructs its result from
\* a response, "" when the construction succeeds: the arguments of the
\* constructor are evaluated in the order written, the items of a domain
\* response one after the other
ConstructRaises(kind, response) ==
    LET addresses(d) ==
            LET addrs == Get(d, "addresses", <<>>)
            IN  FirstRaised([i \in 1..Len(addrs) |-> ParseAddressRaises(addrs[i])])
        items == Get(response, "results", <<>>)
    IN  IF kind = "DomainSearchResult"
        THEN FirstRaised([i \in 1..Len(items) |->
                            IF "email" \notin DOMAIN items[i] THEN "KeyError"
                            ELSE addresses(items[i])])
        ELSE IF Get(response, "dob", <<>>) # <<>> /\ ParserRaises(response["dob"])
        THEN "ParserError"
        ELSE addresses(response)

(***************************************************************************)
(* Cache keys: the f-strings of the three search operations.               *)
(***************************************************************************)
\* the email key without include_house_value
EmailCacheKeyNoHouseValue(email, include_house_value, include_extra_info) ==
    <<"e","m","a","i","l","_">> \o email \o <<"_">>
        \o BoolStr(include_extra_info)

EmailCacheKey(email, include_house_value, include_extra_info) ==
    <<"e","m","a","i","l","_">> \o email \o <<"_">>
        \o BoolStr(include_house_value) \o <<"_">> \o BoolStr(include_extra_info)

PhoneCacheKey(phone, include_house_value, include_extra_info) ==
    <<"p","h","o","n","e","_">> \o phone \o <<"_">>
        \o BoolStr(include_house_value) \o <<"_">> \o BoolStr(include_extra_info)

DomainCacheKey(domain) == <<"d","o","m","a","i","n","_">> \o domain

(***************************************************************************)
(* The cache: cachetools.TTLCache(maxsize, ttl), a sequence of entries     *)
(* [key, val, expires] in the order of its links (least recently used      *)
(* first).  An entry is visible while timer() < expires.                   *)
(***************************************************************************)
HasKey(c, k) == \E i \in 1..Len(c) : c[i].key = k

Entry(c, k) == c[CHOOSE i \in 1..Len(c) : c[i].key = k]

Without(c, k) == SelectSeq(c, LAMBDA e : e.key # k)

\* the entries of a cache, whatever their order
EntriesOf(c) == { c[i] : i \in 1..Len(c) }

\* TTLCache.expire(time): every entry with not (time < expires) is removed
Expire(c, t) == SelectSeq(c, LAMBDA e : t < e.expires)

\* __contains__ with the comparison turned round
CacheContainsReversed(c, k, t) == HasKey(c, k) /\ Entry(c, k).expires < t

\* __contains__ with an entry still visible at the instant it expires
CacheContainsInclusive(c, k, t) == HasKey(c, k) /\ t <= Entry(c, k).expires

\* TTLCache.__contains__: no reordering
CacheContains(c, k, t) == HasKey(c, k) /\ t < Entry(c, k).expires

\* __getitem__ that leaves the order of the links alone
CacheGetItemNoMove(c, k, t) ==
    IF ~HasKey(c, k)
    THEN [found |-> FALSE, val |-> NoObject, cache |-> c]
    ELSE [found |-> t < Entry(c, k).expires,
          val |-> Entry(c, k).val,
          cache |-> c]

\* TTLCache.__getitem__: the link is moved to the end, then an expired or
\* missing key raises KeyError (found = FALSE), else the value is returned
CacheGetItem(c, k, t) ==
    IF ~HasKey(c, k)
    THEN [found |-> FALSE, val |-> NoObject, cache |-> c]
    ELSE [found |-> t < Entry(c, k).expires,
          val |-> Entry(c, k).val,
          cache |-> Without(c, k) \o <<Entry(c, k)>>]

\* TTLCache.popitem: the least recently used entry that has not expired
PopItem(c, t) == Tail(Expire(c, t))

\* Cache.__setitem__'s loop: while currsize + size > maxsize: popitem()
RECURSIVE MakeRoom(_, _)
MakeRoom(c, t) ==
    IF Len(c) + 1 > MaxSize /\ c # <<>> THEN MakeRoom(PopItem(c, t), t) ELSE c

\* TTLCache.__setitem__, first part: expire(time), then room is made for a
\* key that is not present
SetItemRoom(c, k, t) ==
    LET live == Expire(c, t)
    IN  IF HasKey(live, k) THEN live ELSE MakeRoom(live, t)

\* TTLCache.__setitem__, second part: the value is stored and the key's link
\* is put at the end with its new expiry
SetItemStore(c, k, v, t) ==
    Without(c, k) \o <<[key |-> k, val |-> v, expires |-> t + Ttl]>>

\* TTLCache.__setitem__ at time t
CacheSetItem(c, k, v, t) == SetItemStore(SetItemRoom(c, k, t), k, v, t)

(***************************************************************************)
(* The transport, SearchAPI._make_request.  A response of the service is   *)
(* [fail, status, body]: fail is "none" when an HTTP response arrived, and *)
(* body tells what response.text holds: a JSON object ("json"), a JSON     *)
(* object with an "error" member ("json_error"), nothing ("empty") or text *)
(* that is not JSON ("text"); "json_balance" is a JSON object with the      *)
(* members current_balance and required_credits.  A status_code, a         *)
(* current_balance or a required_credits of 0 stands for None.             *)
(***************************************************************************)
Bodies == {"json", "json_error", "json_balance", "empty", "text"}

\* the bodies response.json() parses
JsonBodies == {"json", "json_error", "json_balance"}

Response(fail, status, body) == [fail |-> fail, status |-> status, body |-> body]

Raise(exc, status_code, body) ==
    [raised |-> TRUE, exc |-> exc, status_code |-> status_code, body |-> body,
     current_balance |-> 0, required_credits |-> 0]

\* InsufficientBalanceError(message, status_code, current_balance=None,
\* required_credits=None): the error that carries the account's figures
InsufficientBalanceError(status_code, current_balance, required_credits) ==
    [Raise("InsufficientBalanceError", status_code, "") EXCEPT
        !.current_balance = current_balance,
        !.required_credits = required_credits]

Return(body) ==
    [raised |-> FALSE, exc |-> "", status_code |-> 0, body |-> body,
     current_balance |-> 0, required_credits |-> 0]

NoResponse == Response("", 0, "")

\* _make_request with the server errors starting above 500
MakeRequestAbove500(resp) ==
    IF resp.fail # "none"
    THEN Raise("SearchAPIError", 0, "")
    ELSE IF resp.status >= 400 /\ resp.status < 600
    THEN IF resp.status = 401
         THEN Raise("AuthenticationError", resp.status, "")
         ELSE IF resp.status = 402
         THEN InsufficientBalanceError(resp.status, 0, 0)
         ELSE IF resp.status = 429
         THEN Raise("RateLimitError", resp.status, "")
         ELSE IF resp.status > 500
         THEN Raise("ServerError", resp.status, "")
         ELSE IF resp.body = "empty"
         THEN Raise("SearchAPIError", resp.status, "")
         ELSE IF resp.body = "text"
         THEN Raise("JSONDecodeError", 0, "")
         ELSE Raise("SearchAPIError", resp.status, resp.body)
    ELSE IF resp.body \in JsonBodies
    THEN Return(resp.body)
    ELSE Raise("SearchAPIError", 0, "")

\* SearchAPI._make_request, from session.request on
MakeRequest(resp) ==
    IF resp.fail # "none"
    THEN \* except requests.exceptions.RequestException
         Raise("SearchAPIError", 0, "")
    ELSE IF resp.status >= 400 /\ resp.status < 600
    THEN \* response.raise_for_status() raised HTTPError
         IF resp.status = 401
         THEN Raise("AuthenticationError", resp.status, "")
         ELSE IF resp.status = 402
         THEN \* the message and the status code are all the raise passes
              InsufficientBalanceError(resp.status, 0, 0)
         ELSE IF resp.status = 429
         THEN Raise("RateLimitError", resp.status, "")
         ELSE IF resp.status >= 500
         THEN Raise("ServerError", resp.status, "")
         ELSE IF resp.body = "empty"
         THEN Raise("SearchAPIError", resp.status, "")
         ELSE IF resp.body = "text"
         THEN \* e.response.json() raises inside the except clause
              Raise("JSONDecodeError", 0, "")
         ELSE Raise("SearchAPIError", resp.status, resp.body)
    ELSE IF resp.body \in JsonBodies
    THEN Return(resp.body)
    ELSE \* response.json() raises requests' JSONDecodeError, a RequestException
         Raise("SearchAPIError", 0, "")

\* _make_request with the call of session.request repeated once on failure
RequestsAfterRetrying(n, r) == IF r.raised THEN n + 2 ELSE n + 1

\* the requests issued so far once _make_request has run with outcome r:
\* session.request is called once, whatever r is
RequestsAfter(n, r) == n + 1

\* the test of the "error" member left out
HasErrorMemberIgnored(body) == FALSE

\* "error" in response
HasErrorMember(body) == body = "json_error"

(***************************************************************************)
(* The state.                                                              *)
(***************************************************************************)
VARIABLES
    now,        \* the clock the cache reads
    cache,      \* self.cache
    requests,   \* HTTP requests issued so far
    heap,       \* the content of every result object constructed, by its id
    threads,    \* where each thread that calls the client is in its call
    session,    \* self.session, the requests.Session: "open" or "closed"
    recency,    \* history: the cached keys, least recently inserted or hit first
    last,       \* history: the call just made, its arguments and how it ended
    workers,    \* where each fetch_email_info of the example's pool is, by email
    output,     \* the lines appended to the example's output file
    step        \* history: the attempt a fetch_email_info just made

vars ==
    <<now, cache, requests, heap, threads, session, recency, last,
      workers, output, step>>

Threads == 1..MaxThreads

\* the emails of the list that the example's main hands to its pool, by
\* their position in the list
Emails == 1..MaxEmails

\* a fetch_email_info: its place (pc: "call" before a call of search_email,
\* "sleep" in time.sleep, "done" once it returned), the attempt of the loop
\* it is in and the calls of search_email it made
Worker(pc, attempt, calls) == [pc |-> pc, attempt |-> attempt, calls |-> calls]

\* what search_email answered: a result (result: "none" for a false value,
\* "empty" for a result without data, "data" for one with data and
\* "data_no_person" for one with data and no person attribute) or an
\* exception of class cls, whose message contains the phrases of text
Returned(result) == [raised |-> FALSE, cls |-> "", text |-> {}, result |-> result]

Raised(cls, text) == [raised |-> TRUE, cls |-> cls, text |-> text, result |-> ""]

\* What an attempt records: the email, the attempt of the loop, what
\* search_email answered, the line appended ("" for none) and the seconds
\* slept afterwards.
Step(email, attempt, outcome, line, delay) ==
    [email |-> email, attempt |-> attempt, outcome |-> outcome, line |-> line,
     delay |-> delay]

NoStep == Step(0, 0, Returned(""), "", 0)

\* a thread: its place in search_email (pc), and the email and the result
\* of the call it is in
Thread(pc, email, result) == [pc |-> pc, email |-> email, result |-> result]

Idle == Thread("idle", <<>>, NoObject)

\* What a call records: the operation and its arguments, the PhoneNumber that
\* search_phone parsed, the cache key and the query parameters, the response
\* the call's request met and the JSON parsed from it, the exception raised ("" when the call returned),
\* the status code, body and account figures the exception carries, the body
\* or object returned, the numbers of cache accesses and HTTP requests of the call,
\* whether it returned from the cache (hit), found its key expired (stale),
\* stored its result, how many unexpired entries the insertion evicted, and
\* the string a helper called alone returned (out).
Call(op, arg, house_value, extra_info) ==
    [op |-> op, arg |-> arg, house_value |-> house_value,
     extra_info |-> extra_info, phone |-> NoPhone, key |-> <<>>,
     params |-> NoParams, resp |-> NoResponse, exc |-> "", status_code |-> 0,
     body |-> "", current_balance |-> 0, required_credits |-> 0,
     data |-> NoData, ret |-> NoObject, lookups |-> 0, requests |-> 0,
     hit |-> FALSE, stale |-> FALSE, stored |-> FALSE, evicted |-> 0,
     out |-> <<>>]

NoCall == Call("", <<>>, FALSE, FALSE)

\* the state a handler leaves: the cache, the clock, the request count
Outcome(c, t, n, call) == [cache |-> c, now |-> t, requests |-> n, last |-> call]

\* a call of _make_request alone
make_request(c, t, n, resp) ==
    LET r == MakeRequest(resp)
    IN  Outcome(c, t, RequestsAfter(n, r),
                [Call("_make_request", <<>>, FALSE, FALSE) EXCEPT
                    !.resp = resp, !.exc = r.exc,
                    !.status_code = r.status_code, !.body = r.body,
                    !.current_balance = r.current_balance,
                    !.required_credits = r.required_credits,
                    !.requests = RequestsAfter(n, r) - n])

\* The part the three search operations share once the arguments are valid
\* (search_email lines 305-333, search_phone 356-384, search_domain 406-436):
\* the membership test, the read on a hit, otherwise the request, the
\* "error" member, the construction of the result and its insertion.
\* net is what the call meets: the service's response (net.resp), the parsed
\* JSON of a body that is a JSON object (net.data) and the time that passes
\* after the membership test, until the read of a hit or until the insertion
\* of a new result (net.delay).
LookupOrRequest(c, t, n, call, kind, subject, net) ==
    IF CacheContains(c, call.key, t)
    THEN LET g == CacheGetItem(c, call.key, t + net.delay)
         IN  IF g.found
             THEN Outcome(g.cache, t + net.delay, n,
                          [call EXCEPT !.ret = g.val,
                                       !.lookups = 2, !.hit = TRUE])
             ELSE Outcome(g.cache, t + net.delay, n,
                          [call EXCEPT !.exc = "KeyError", !.lookups = 2])
    ELSE LET r == MakeRequest(net.resp)
             m == RequestsAfter(n, r)
             sent == [call EXCEPT !.resp = net.resp, !.lookups = 1,
                                  !.requests = m - n,
                                  !.stale = HasKey(c, call.key)]
         IN  IF r.raised
             THEN Outcome(c, t + net.delay, m,
                          [sent EXCEPT !.exc = r.exc,
                                       !.status_code = r.status_code,
                                       !.body = r.body,
                                       !.current_balance = r.current_balance,
                                       !.required_credits = r.required_credits])
             ELSE IF HasErrorMember(r.body)
             THEN Outcome(c, t + net.delay, m,
                          [sent EXCEPT !.exc = "SearchAPIError"])
             ELSE IF ConstructRaises(kind, net.data) # ""
             THEN Outcome(c, t + net.delay, m,
                          [sent EXCEPT !.data = net.data,
                                       !.exc = ConstructRaises(kind, net.data)])
             ELSE LET made == Construct(kind, subject, call.phone, net.data)
                      got == [sent EXCEPT !.data = net.data]
                      result == Object(n + 1, kind, subject, call.params, made)
                      stored == CacheSetItem(c, call.key, result, t + net.delay)
                  IN  Outcome(stored, t + net.delay, m,
                              [got EXCEPT
                                 !.ret = result, !.stored = TRUE,
                                 !.evicted = Len(Expire(Without(c, call.key),
                                                        t + net.delay))
                                             + 1 - Len(stored)])

\* the blocklist test left out
IsMajorDomainSkipped(domain) == FALSE

\* if domain in MAJOR_DOMAINS
IsMajorDomain(domain) == domain \in MAJOR_DOMAINS

\* SearchAPI.search_email
search_email(c, t, n, email, include_house_value, include_extra_info, net) ==
    LET call == Call("search_email", email, include_house_value,
                     include_extra_info)
    IN  IF ~EmailMatch(email)
        THEN Outcome(c, t, n, [call EXCEPT !.exc = "ValidationError"])
        ELSE LookupOrRequest(c, t, n,
                 [call EXCEPT
                    !.key = EmailCacheKey(email, include_house_value,
                                          include_extra_info),
                    !.params = Params("email", email, include_house_value,
                                      include_extra_info)],
                 "EmailSearchResult", email, net)

\* SearchAPI.search_phone
search_phone(c, t, n, phone, include_house_value, include_extra_info, net) ==
    LET phone_number == ParsePhoneNumber(phone)
        call == [Call("search_phone", phone, include_house_value,
                      include_extra_info) EXCEPT !.phone = phone_number]
    IN  IF ~phone_number.is_valid
        THEN Outcome(c, t, n, [call EXCEPT !.exc = "ValidationError"])
        ELSE LookupOrRequest(c, t, n,
                 [call EXCEPT
                    !.key = PhoneCacheKey(phone, include_house_value,
                                          include_extra_info),
                    !.params = Params("phone", phone, include_house_value,
                                      include_extra_info)],
                 "PhoneSearchResult", phone_number.number, net)

\* SearchAPI.search_domain
search_domain(c, t, n, arg, net) ==
    LET domain == Strip(Lower(arg))
        call == Call("search_domain", arg, FALSE, FALSE)
    IN  IF ~DomainMatch(domain)
        THEN Outcome(c, t, n, [call EXCEPT !.exc = "ValidationError"])
        ELSE IF IsMajorDomain(domain)
        THEN Outcome(c, t, n, [call EXCEPT !.exc = "ValidationError"])
        ELSE LookupOrRequest(c, t, n,
                 [call EXCEPT !.key = DomainCacheKey(domain),
                              !.params = Params("domain", domain, FALSE, FALSE)],
                 "DomainSearchResult", domain, net)

(***************************************************************************)
(* The inputs of the calls: <<email, include_house_value,                  *)
(* include_extra_info>>, likewise for phones, and domains.                 *)
(***************************************************************************)
EmailCalls ==
    { << <<"a","@","b",".","c">>, FALSE, FALSE >>,
      << <<"a","@","b",".","c">>, TRUE, FALSE >>,
      << <<"a","b",".","c">>, FALSE, TRUE >> }

PhoneCalls ==
    { << <<"+","1","4","8","0","3","6","5","8","2","6","2">>, FALSE, FALSE >>,
      << <<"a","b","c">>, TRUE, FALSE >> }

DomainCalls ==
    { <<"a",".","b","c">>,
      <<" ","A",".","B","C">>,
      <<"m","e",".","c","o","m">> }

\* the responses the search operations meet
Responses ==
    { Response("none", 200, "json"),
      Response("none", 200, "json_error"),
      Response("none", 401, "json"),
      Response("connection", 0, "") }

\* the parsed JSON of the responses of Responses
Data ==
    [name |-> "n",
     dob |-> <<"1","9","9","0","-","0","1","-","0","2">>,
     numbers |-> << <<"+","1","4","8","0","3","6","5","8","2","6","2">> >>,
     results |-> << [email |-> <<"a","@","b",".","c">>, name |-> "n"] >>]

Nets == [resp : Responses, delay : 0..MaxDelay, data : {Data}]

(***************************************************************************)
(* The specification: any sequence of calls on one client, and time        *)
(* passing between them.                                                   *)
(***************************************************************************)
Init ==
    /\ now = 0
    /\ cache = <<>>
    /\ requests = 0
    /\ heap = [id \in {} |-> NoContent]
    /\ threads = [th \in Threads |-> Idle]
    /\ session = "open"
    /\ recency = <<>>
    /\ last = NoCall
    /\ workers = [email \in Emails |-> Worker("call", 0, 0)]
    /\ output = <<>>
    /\ step = NoStep

\* the keys of the cache by their last insertion or hit, after a call
Recency(o) ==
    LET k == o.last.key
        r == IF o.last.hit \/ o.last.stored
             THEN SelectSeq(recency, LAMBDA x : x # k) \o <<k>>
             ELSE recency
    IN  SelectSeq(r, LAMBDA x : HasKey(o.cache, x))

\* a call that ends in outcome o
Do(o) ==
    /\ o.now <= MaxTime
    /\ o.requests <= MaxRequests
    /\ now' = o.now
    /\ cache' = o.cache
    /\ requests' = o.requests
    /\ last' = o.last
    /\ recency' = Recency(o)
    /\ heap' = IF o.last.stored
               THEN (o.last.ret.id :> o.last.ret.made) @@ heap
               ELSE heap
    /\ UNCHANGED <<threads, session, workers, output, step>>

SearchEmail(calls, nets) ==
    \E a \in calls, net \in nets :
        Do(search_email(cache, now, requests, a[1], a[2], a[3], net))

SearchPhone(calls, nets) ==
    \E a \in calls, net \in nets :
        Do(search_phone(cache, now, requests, a[1], a[2], a[3], net))

SearchDomain(calls, nets) ==
    \E domain \in calls, net \in nets :
        Do(search_domain(cache, now, requests, domain, net))

\* time passes between two calls
Tick ==
    /\ now < MaxTime
    /\ now' = now + 1
    /\ UNCHANGED <<cache, requests, heap, threads, session, recency, last,
                   workers, output, step>>

Next ==
    \/ SearchEmail(EmailCalls, Nets)
    \/ SearchPhone(PhoneCalls, Nets)
    \/ SearchDomain(DomainCalls, Nets)
    \/ Tick

Spec == Init /\ [][Next]_vars

(***************************************************************************)
(* One call with any argument.  The client is in a state that earlier      *)
(* calls left (a cache that holds results of the calls of EmailCalls,      *)
(* PhoneCalls and DomainCalls, fresh or expired), and makes one call whose *)
(* argument is any short string, or one of the listed longer ones.         *)
(***************************************************************************)
AnyEmails ==
    StringsUpTo({"a", "@", ".", "_"}, MaxEmailLen)
        \cup { a[1] : a \in EmailCalls }
        \cup { <<"a","@","b",".","c","_","T","r","u","e">>,
               <<"a","@","b",".","c","_","F","a","l","s","e">>,
               <<"a","@","b",".","c","@","d">>,
               <<"a","@","b",".","c","@","d",".","e">> }

AnyPhones ==
    StringsUpTo({"1", "4", "+", "-", "x"}, MaxPhoneLen)
        \cup { a[1] : a \in PhoneCalls }
        \cup { <<"(","4","8","0",")"," ","3","6","5","-","8","2","6","2">>,
               <<"4","8","0","3","6","5","8","2","6","2">>,
               <<"1","4","8","0","3","6","5","8","2","6","2">>,
               <<"+","1","4","8","0","3","6","5","8","2","6">>,
               <<"+","1","1","8","0","3","6","5","8","2","6","2">>,
               <<"+","0","4","8","0","3","6","5","8","2","6","2">>,
               <<"4","8","0","3","6","5","8","2","6","2","_","T","r","u","e">> }

AnyDomains ==
    StringsUpTo({"a", "B", "0", "-", ".", " "}, MaxDomainLen)
        \cup DomainCalls
        \cup MAJOR_DOMAINS
        \cup { Upper(d) : d \in MAJOR_DOMAINS }
        \cup { <<" ">> \o d \o <<"\n">> : d \in MAJOR_DOMAINS }
        \cup { <<"a","-","b",".","c","o","m">>,
               <<"a","-","-","b",".","c","o","m">>,
               <<"a",".","b",".","c","0">>,
               <<"a","@","b",".","c","_","T","r","u","e">> }

AnyEmailCalls == AnyEmails \X BOOLEAN \X BOOLEAN

AnyPhoneCalls == AnyPhones \X BOOLEAN \X BOOLEAN

\* the responses the one call meets, without delay
AnyNets == [resp : Responses, delay : {0}, data : {Data}]

\* a request that succeeds at once
OkNet == [resp |-> Response("none", 200, "json"), delay |-> 0, data |-> Data]

\* the states earlier calls left: no call, or one or two successful calls
Earlier ==
    LET start == Outcome(<<>>, 0, 0, NoCall)
        email(o, a) == search_email(o.cache, o.now, o.requests,
                                    a[1], a[2], a[3], OkNet)
        phone(o, a) == search_phone(o.cache, o.now, o.requests,
                                    a[1], a[2], a[3], OkNet)
        domain(o, d) == search_domain(o.cache, o.now, o.requests, d, OkNet)
        one == { email(start, a) : a \in EmailCalls }
                 \cup { phone(start, a) : a \in PhoneCalls }
                 \cup { domain(start, d) : d \in DomainCalls }
        two == { email(o, a) : o \in one, a \in EmailCalls }
    IN  {start} \cup one \cup two

InitAny ==
    \E o \in Earlier :
        /\ now \in {0, Ttl}
        /\ cache = o.cache
        /\ requests = o.requests
        /\ heap = [id \in { o.cache[i].val.id : i \in 1..Len(o.cache) } |->
                      (CHOOSE e \in EntriesOf(o.cache) : e.val.id = id).val.made]
        /\ threads = [th \in Threads |-> Idle]
        /\ session = "open"
        /\ recency = [i \in 1..Len(o.cache) |-> o.cache[i].key]
        /\ last = NoCall
        /\ workers = [email \in Emails |-> Worker("call", 0, 0)]
        /\ output = <<>>
        /\ step = NoStep

NextAny ==
    /\ last = NoCall
    /\ \/ SearchEmail(AnyEmailCalls, AnyNets)
       \/ SearchPhone(AnyPhoneCalls, AnyNets)
       \/ SearchDomain(AnyDomains, AnyNets)

SpecAny == InitAny /\ [][NextAny]_vars

(***************************************************************************)
(* One domain search with any list of results.  An item holds an email     *)
(* and any of the members dob, numbers and phone_numbers.                  *)
(***************************************************************************)
Item(email, members, numbers) ==
    [k \in {"email"} \cup members |->
        CASE k = "email" -> email
          [] k = "dob" -> <<"1","9","9","0","-","0","1","-","0","2">>
          [] k = "numbers" -> numbers
          [] k = "phone_numbers" -> numbers]

Items ==
    { Item(e, m, ns) :
        e \in { <<"a","@","b",".","c">>, <<"d","@","b",".","c">> },
        m \in SUBSET {"dob", "numbers", "phone_numbers"},
        ns \in { << <<"+","1","4","8","0","3","6","5","8","2","6","2">> >>,
                 << <<"4","8","0","3","6","5","8","2","6","2">>,
                    <<"a","b","c">> >> } }

\* the responses to a domain search: with a list of results, or without
DomainData ==
    { [results |-> rs] : rs \in StringsUpTo(Items, MaxResults) }
        \cup { [name |-> "n"] }

DomainNets ==
    [resp : {Response("none", 200, "json")}, delay : {0}, data : DomainData]

NextDomain ==
    /\ last = NoCall
    /\ SearchDomain({ <<"a",".","b","c">> }, DomainNets)

SpecDomain == Init /\ [][NextDomain]_vars

(***************************************************************************)
(* Callers that change the results they were handed: the result classes    *)
(* are dataclasses that are not frozen, and every object constructed was   *)
(* returned to a caller.                                                   *)
(***************************************************************************)
\* result.name = "changed", by the caller that holds the object id
Mutate ==
    \E id \in DOMAIN heap :
        /\ "name" \in DOMAIN heap[id]
        /\ heap[id].name # "changed"
        /\ heap' = [heap EXCEPT ![id].name = "changed"]
        /\ UNCHANGED <<now, cache, requests, threads, session, recency, last,
                       workers, output, step>>

NextCaller ==
    \/ SearchEmail(EmailCalls, {OkNet})
    \/ Mutate
    \/ Tick

SpecCaller == Init /\ [][NextCaller]_vars

(***************************************************************************)
(* Threads that call search_email on one client at the same time, as the   *)
(* workers of a thread pool do.  The client holds no lock, so the steps of *)
(* the calls interleave: the membership test, the read of a hit, the       *)
(* request, and the two parts of the insertion (TTLCache.__setitem__ is    *)
(* Python code: it makes room, then stores).  The service answers every    *)
(* request with Data, and the clock stands still.                          *)
(***************************************************************************)
ThreadEmails ==
    { <<"a","@","b",".","c">>, <<"d","@","b",".","c">>, <<"e","@","b",".","c">> }

\* the thread's step, the other threads and the histories left alone
ThreadStep(th, thread) ==
    /\ threads' = [threads EXCEPT ![th] = thread]
    /\ UNCHANGED <<now, session, recency, last, workers, output, step>>

\* the cache key of the call that thread th is in
KeyOf(th) == EmailCacheKey(threads[th].email, FALSE, FALSE)

\* search_email up to the membership test: cache_key in self.cache
Lookup(th) ==
    /\ threads[th].pc = "idle"
    /\ \E email \in ThreadEmails :
          LET key == EmailCacheKey(email, FALSE, FALSE)
          IN  /\ EmailMatch(email)
              /\ ThreadStep(th, Thread(IF CacheContains(cache, key, now)
                                       THEN "reading" ELSE "requesting",
                                       email, NoObject))
    /\ UNCHANGED <<cache, requests, heap>>

\* return self.cache[cache_key]
Read(th) ==
    /\ threads[th].pc = "reading"
    /\ cache' = CacheGetItem(cache, KeyOf(th), now).cache
    /\ ThreadStep(th, Idle)
    /\ UNCHANGED <<requests, heap>>

\* the request and the construction of the result
Fetch(th) ==
    /\ threads[th].pc = "requesting"
    /\ requests < MaxRequests
    /\ requests' = requests + 1
    /\ LET email == threads[th].email
           made == Construct("EmailSearchResult", email, NoPhone, Data)
           result == Object(requests + 1, "EmailSearchResult", email,
                            Params("email", email, FALSE, FALSE), made)
       IN  /\ heap' = (result.id :> made) @@ heap
           /\ ThreadStep(th, Thread("inserting", email, result))
    /\ UNCHANGED cache

\* self.cache[cache_key] = result, first part
InsertRoom(th) ==
    /\ threads[th].pc = "inserting"
    /\ cache' = SetItemRoom(cache, KeyOf(th), now)
    /\ ThreadStep(th, [threads[th] EXCEPT !.pc = "storing"])
    /\ UNCHANGED <<requests, heap>>

\* self.cache[cache_key] = result, second part, and the return
InsertStore(th) ==
    /\ threads[th].pc = "storing"
    /\ cache' = SetItemStore(cache, KeyOf(th), threads[th].result, now)
    /\ ThreadStep(th, Idle)
    /\ UNCHANGED <<requests, heap>>

NextThreads ==
    \E th \in Threads :
        \/ Lookup(th)
        \/ Read(th)
        \/ Fetch(th)
        \/ InsertRoom(th)
        \/ InsertStore(th)

SpecThreads == Init /\ [][NextThreads]_vars

(***************************************************************************)
(* A program that uses a client as the example programs do: the client is *)
(* constructed, searches are made inside a try statement, and the finally  *)
(* clause calls client.close(), on the normal path and after an exception. *)
(* The program ends with that call.                                        *)
(***************************************************************************)
\* client.close(): the class SearchAPI defines no such attribute
Close ==
    /\ last.op # "close"
    /\ last' = [Call("close", <<>>, FALSE, FALSE) EXCEPT !.exc = "AttributeError"]
    /\ UNCHANGED <<now, cache, requests, heap, threads, session, recency,
                   workers, output, step>>

NextProgram ==
    \/ /\ last.op # "close"
       /\ \/ SearchEmail(EmailCalls, AnyNets)
          \/ SearchPhone(PhoneCalls, AnyNets)
          \/ SearchDomain(DomainCalls, AnyNets)
    \/ Close

SpecProgram == Init /\ [][NextProgram]_vars

(***************************************************************************)
(* The transport alone: one call of _make_request, with any response.      *)
(***************************************************************************)
AnyResponses ==
    { Response("none", st, b) : st \in 100..599, b \in Bodies }
        \cup { Response("connection", 0, ""), Response("timeout", 0, "") }

Request ==
    /\ last = NoCall
    /\ \E resp \in AnyResponses : Do(make_request(cache, now, requests, resp))

SpecTransport == Init /\ [][Request]_vars

(***************************************************************************)
(* One search call that meets any response: any status and body, and a     *)
(* JSON object of any of the shapes of Shapes.                             *)
(***************************************************************************)
\* Data with the members of more, which replace its own
With(more) ==
    [k \in DOMAIN Data \cup DOMAIN more |->
        IF k \in DOMAIN more THEN more[k] ELSE Data[k]]

Shapes ==
    { Data,
      With([dob |-> <<"n","/","a">>]),
      With([addresses |->
              << AddressData("str", <<"1","2","3"," ","m","a","i","n"," ","s","t">>),
                 AddressData("dict", [street |-> <<"1"," ","A">>,
                                      zestimate |-> <<"2","5","0">>]) >>]),
      With([addresses |->
              << AddressData("dict", [street |-> <<"1"," ","A">>,
                                      zestimate |-> <<"n","/","a">>]) >>]),
      With([results |-> << [email |-> <<"a","@","b",".","c">>], [name |-> "n"] >>]) }

ShapeNets == [resp : AnyResponses, delay : {0}, data : Shapes]

NextShapes ==
    /\ last = NoCall
    /\ \/ SearchEmail(EmailCalls, ShapeNets)
       \/ SearchPhone(PhoneCalls, ShapeNets)
       \/ SearchDomain(DomainCalls, ShapeNets)

SpecShapes == Init /\ [][NextShapes]_vars

(***************************************************************************)
(* Addresses.  _format_address called alone, with any short string over a  *)
(* small alphabet or one of the listed longer ones.                        *)
(***************************************************************************)
\* the state abbreviations, as the table spells them
StateKeys == { p[1] : p \in STATE_ABBREVIATIONS }

Addresses ==
    StringsUpTo({"c", "t", "A", "1", " ", ","}, MaxAddressLen)
        \cup { <<"x", ",", " ">> \o k \o <<" ", "1", "2">> : k \in StateKeys }
        \cup { <<"1","2","3"," ","m","a","i","n"," ","s","t">>,
               <<"a","n","y","t","o","w","n",","," ","c","a"," ","1","2","3","4","5">>,
               <<"A","N","Y","T","O","W","N",","," ","C","A"," ","1","2","3","4","5">>,
               <<"h","a","r","t","f","o","r","d",","," ","c","t"," ","0","6","1","0","1">>,
               <<"p","o","r","t","l","a","n","d",","," ","o","r">>,
               <<"1","2","3"," ","m","a","i","n"," ","s","t",","," ","a","n","y","t",
                 "o","w","n",","," ","c","a"," ","1","2","3","4","5">> }

FormatAddress ==
    /\ last = NoCall
    /\ \E address_str \in Addresses :
          Do(Outcome(cache, now, requests,
                     [Call("_format_address", address_str, FALSE, FALSE)
                         EXCEPT !.out = format_address(address_str)]))

SpecAddress == Init /\ [][FormatAddress]_vars

(***************************************************************************)
(* The example's worker pool (examples/search.py): one fetch_email_info    *)
(* per email of the list, run side by side, each calling search_email up   *)
(* to MAX_RETRIES times.  What search_email answers is any answer of       *)
(* Answers, chosen anew at every call.                                     *)
(***************************************************************************)
MAX_RETRIES == 3

RETRY_DELAY_BASE == 1

OUTPUT_ALL == FALSE

\* the classes that the handler "except SearchAPIError" catches
SearchAPIErrors ==
    {"SearchAPIError", "AuthenticationError", "InsufficientBalanceError",
     "ValidationError", "RateLimitError", "TimeoutError", "NetworkError",
     "ServerError"}

\* isinstance(e, (AuthenticationError, InsufficientBalanceError, ValidationError))
NeverRetried == {"AuthenticationError", "InsufficientBalanceError", "ValidationError"}

\* isinstance(e, (RateLimitError, TimeoutError, NetworkError, ServerError))
Transient == {"RateLimitError", "TimeoutError", "NetworkError", "ServerError"}

\* the phrases the handler looks for in str(e)
Phrases == {"No data found", "403"}

Answers ==
    { Returned(r) : r \in {"none", "empty", "data", "data_no_person"} }
        \cup { Raised(cls, text) : cls \in SearchAPIErrors, text \in SUBSET Phrases }
        \cup { Raised("TypeError", {}) }

\* base ** attempt, for attempt >= 0
RECURSIVE Power(_, _)
Power(base, attempt) ==
    IF attempt = 0 THEN 1 ELSE base * Power(base, attempt - 1)

\* delay = RETRY_DELAY_BASE ** attempt
Delay(attempt) == Power(RETRY_DELAY_BASE, attempt)

\* attempt >= 1 in place of the test for the last attempt
IsLaterAttempt(attempt) == attempt >= 1

\* attempt == MAX_RETRIES - 1
IsLastAttempt(attempt) == attempt = MAX_RETRIES - 1

\* how the body of the loop ends (then: "return", or "continue" for the end
\* of the body), the line it appended and the seconds it slept
Ends(then, line, delay) == [then |-> then, line |-> line, delay |-> delay]

\* lines 869-878 and 880-889: the line on the last attempt, else the sleep
ReportOrSleep(attempt) ==
    IF IsLastAttempt(attempt) THEN Ends("continue", "error", 0)
    ELSE Ends("continue", "", Delay(attempt))

\* lines 670-825: the body of the try, given the result of search_email
\* (create_output_line reads result.person, an AttributeError for a result
\* without that attribute, which "except Exception" handles)
TryBody(attempt, result) ==
    IF result = "none"
    THEN Ends("return", IF OUTPUT_ALL THEN "result" ELSE "", 0)
    ELSE IF result = "empty" /\ ~OUTPUT_ALL THEN Ends("return", "", 0)
    ELSE IF result = "data_no_person" THEN ReportOrSleep(attempt)
    ELSE Ends("return", "result", 0)

\* lines 827-878: the handler "except SearchAPIError as e"
ExceptSearchAPIError(attempt, e) ==
    IF "No data found" \in e.text
    THEN Ends("return", IF OUTPUT_ALL THEN "result" ELSE "", 0)
    ELSE IF "403" \in e.text
    THEN IF IsLastAttempt(attempt) THEN Ends("return", "error", 0)
         ELSE Ends("continue", "", Delay(attempt) * 5)
    ELSE IF e.cls \in NeverRetried THEN Ends("return", "error", 0)
    ELSE IF e.cls \in Transient
    THEN IF IsLastAttempt(attempt) THEN Ends("return", "error", 0)
         ELSE Ends("continue", "", Delay(attempt))
    ELSE ReportOrSleep(attempt)

\* one pass of the loop of fetch_email_info, given what search_email answered
LoopBody(attempt, answer) ==
    IF ~answer.raised THEN TryBody(attempt, answer.result)
    ELSE IF answer.cls \in SearchAPIErrors
    THEN ExceptSearchAPIError(attempt, answer)
    ELSE ReportOrSleep(attempt)

\* fetch_email_info: one pass of "for attempt in range(MAX_RETRIES)", from
\* the call of search_email to the return, to the sleep or to the next pass
Attempt(email) ==
    /\ workers[email].pc = "call"
    /\ \E answer \in Answers :
          LET attempt == workers[email].attempt
              calls == workers[email].calls + 1
              body == LoopBody(attempt, answer)
          IN  /\ workers' = [workers EXCEPT ![email] =
                    IF body.then = "return" \/ attempt + 1 >= MAX_RETRIES
                    THEN Worker("done", attempt, calls)
                    ELSE IF body.delay > 0
                    THEN Worker("sleep", attempt, calls)
                    ELSE Worker("call", attempt + 1, calls)]
              /\ output' = IF body.line = "" THEN output
                           ELSE Append(output, [email |-> email, line |-> body.line])
              /\ step' = Step(email, attempt, answer, body.line, body.delay)
    /\ UNCHANGED <<now, cache, requests, heap, threads, session, recency, last>>

\* time.sleep(delay) returns and the loop goes to its next pass
Wake(email) ==
    /\ workers[email].pc = "sleep"
    /\ workers' = [workers EXCEPT ![email] =
                      Worker("call", workers[email].attempt + 1,
                             workers[email].calls)]
    /\ UNCHANGED <<now, cache, requests, heap, threads, session, recency, last,
                   output, step>>

NextWorkers == \E email \in Emails : Attempt(email) \/ Wake(email)

\* the threads of the pool all get to run, and time.sleep returns
SpecWorkers == Init /\ [][NextWorkers]_vars /\ WF_vars(NextWorkers)

(***************************************************************************)
(* Properties.  A step is a call when it leaves a trace: a new record of   *)
(* the call, a request or a change of the cache.  In a call step the       *)
(* unprimed variables are the state the call found, now is the time it was *)
(* made and now' the time it ended.                                        *)
(***************************************************************************)
IsCall == last' # last \/ requests' # requests \/ cache' # cache

KeysOf(c) == { c[i].key : i \in 1..Len(c) }

\* C1: when a search call finds the entry of its key in the cache (stored by
\* an earlier successful call with the same arguments, not evicted) and ends
\* before the entry is cache_ttl old, it issues no request and returns the
\* very object that the storing call built, stored and returned; the storing
\* call issued exactly one request, and no other call replaces a stored value.
C1_SecondCallReturnsStoredObject ==
    [][IsCall =>
        /\ ( /\ last'.key # <<>>
             /\ HasKey(cache, last'.key)
             /\ now' < Entry(cache, last'.key).expires )
           => /\ last'.exc = ""
              /\ last'.ret = Entry(cache, last'.key).val
              /\ last'.requests = 0
              /\ requests' = requests
        /\ last'.stored
           => /\ last'.exc = ""
              /\ last'.requests = 1
              /\ requests' = requests + 1
              /\ HasKey(cache', last'.key)
              /\ Entry(cache', last'.key) =
                    [key |-> last'.key, val |-> last'.ret, expires |-> now' + Ttl]
              /\ \A i \in 1..Len(cache) : cache[i].val.id # last'.ret.id
        /\ \A i \in 1..Len(cache), j \in 1..Len(cache') :
              ( /\ cache[i].key = cache'[j].key
                /\ ~(last'.stored /\ last'.key = cache[i].key) )
              => cache'[j] = cache[i]
    ]_vars

\* C1 happens: a call was answered from the cache, after one request in all
C1_Witness ==
    /\ last.hit
    /\ last.requests = 0
    /\ requests = 1
    /\ HasKey(cache, last.key)
    /\ last.ret = Entry(cache, last.key).val
    /\ last.ret.id = 1

\* C2: a call reads (hit) or overwrites (insertion) only a cache entry that
\* was built from its own operation and arguments: calls that differ in the
\* operation, the searched value or an option flag never share an entry.
C2_CallsNeverShareAnEntry ==
    [][IsCall =>
        /\ last'.hit => last'.ret.params = last'.params
        /\ last'.lookups > 0
           => \A i \in 1..Len(cache) :
                 cache[i].key = last'.key => cache[i].val.params = last'.params
    ]_vars

\* C2 happens: the results of two calls with the same email and different
\* flags are in the cache side by side
C2_Witness ==
    /\ last.op = "search_email"
    /\ last.stored
    /\ \E i \in 1..Len(cache) :
          /\ cache[i].val.params.value = last.params.value
          /\ cache[i].val.params.house_value # last.params.house_value
          /\ now < cache[i].expires

\* C3: a call made cache_ttl or more after the insertion of its key does not
\* see the entry: it issues a request and does not return the stored object;
\* a call answered from the cache ended less than cache_ttl after the
\* insertion, an insertion at time t being visible until t + cache_ttl.
C3_EntryExpiresAfterTtl ==
    [][IsCall =>
        /\ (last'.key # <<>> /\ HasKey(cache, last'.key))
           => /\ now >= Entry(cache, last'.key).expires
                 => /\ ~last'.hit
                    /\ last'.requests = 1
                    /\ requests' = requests + 1
                    /\ last'.ret # Entry(cache, last'.key).val
              /\ last'.hit => now' < Entry(cache, last'.key).expires
        /\ last'.stored
           => /\ HasKey(cache', last'.key)
              /\ Entry(cache', last'.key).expires = now' + Ttl
    ]_vars

\* C3 happens: a call found its key expired, asked the service again and
\* stored the new result
C3_Witness ==
    /\ last.stale
    /\ last.stored
    /\ last.requests = 1
    /\ last.ret.id = 2

\* C4: the cache never holds more than maxsize entries; an insertion of a
\* new key while maxsize unexpired entries are present evicts exactly one
\* entry, the one whose last insertion or hit is the oldest, and an insertion
\* with room left evicts none.
C4_BoundedLeastRecentlyUsed ==
    [][ /\ Len(cache) <= MaxSize
        /\ Len(cache') <= MaxSize
        /\ (IsCall /\ last'.stored)
           => LET live == KeysOf(Expire(cache, now'))
                  used == SelectSeq(recency, LAMBDA k : k \in live)
              IN  IF last'.key \notin live /\ Cardinality(live) = MaxSize
                  THEN /\ KeysOf(cache') = (live \ {used[1]}) \cup {last'.key}
                       /\ Len(cache') = MaxSize
                  ELSE KeysOf(cache') = live \cup {last'.key}
    ]_vars

\* C4 happens: an insertion into a full cache evicted an entry, and it was not
\* the first one inserted, which a hit had made more recent
C4_Witness ==
    /\ last.stored
    /\ last.evicted = 1
    /\ Len(cache) = MaxSize
    /\ last.ret.id = MaxSize + 1
    /\ \E i \in 1..Len(cache) : cache[i].val.id = 1

NoAt(s) == \A i \in 1..Len(s) : s[i] # "@"

NoDotAfterAt(s) == ~\E i, j \in 1..Len(s) : i < j /\ s[i] = "@" /\ s[j] = "."

\* C5: search_email with a string that holds no "@", or no "." after an "@",
\* raises ValidationError, issues no request and neither reads nor changes
\* the cache, whatever the flags and the cache.
C5_InvalidEmailRejectedFirst ==
    [][( /\ IsCall
         /\ last'.op = "search_email"
         /\ (NoAt(last'.arg) \/ NoDotAfterAt(last'.arg)) )
       => /\ last'.exc = "ValidationError"
          /\ last'.requests = 0
          /\ last'.lookups = 0
          /\ requests' = requests
          /\ cache' = cache
    ]_vars

\* C5 happens: an email with an "@" and no "." after it was rejected while the
\* cache held an entry
C5_Witness ==
    /\ last.op = "search_email"
    /\ ~NoAt(last.arg)
    /\ NoDotAfterAt(last.arg)
    /\ last.house_value
    /\ last.exc = "ValidationError"
    /\ cache # <<>>

\* C6: search_email accepts an email only if it holds exactly one "@", with a
\* non-empty local part before it and a "." in the domain part after it.
C6_AcceptsOnlyOneAt ==
    (last.op = "search_email" /\ last.exc # "ValidationError")
    => LET ats == { i \in 1..Len(last.arg) : last.arg[i] = "@" }
       IN  /\ Cardinality(ats) = 1
           /\ \A i \in ats :
                 /\ i > 1
                 /\ \E j \in (i+1)..Len(last.arg) : last.arg[j] = "."

\* C7: search_domain with a domain whose lowercased, trimmed form is in
\* MAJOR_DOMAINS raises ValidationError without a request, whatever the
\* service would answer and whatever the cache holds, and the cache never
\* holds an entry for such a domain.
C7_MajorDomainRejected ==
    [][ /\ ( /\ IsCall
             /\ last'.op = "search_domain"
             /\ Strip(Lower(last'.arg)) \in MAJOR_DOMAINS )
           => /\ last'.exc = "ValidationError"
              /\ last'.requests = 0
              /\ last'.ret = NoObject
              /\ requests' = requests
              /\ cache' = cache
        /\ \A i \in 1..Len(cache') :
              cache'[i].val.params.field = "domain"
              => cache'[i].val.params.value \notin MAJOR_DOMAINS
    ]_vars

\* C7 happens: a blocklisted domain written in capitals or with blanks was
\* rejected while the cache held an entry
C7_Witness ==
    /\ last.op = "search_domain"
    /\ last.arg \notin MAJOR_DOMAINS
    /\ Strip(Lower(last.arg)) \in MAJOR_DOMAINS
    /\ last.exc = "ValidationError"
    /\ cache # <<>>

Separators == {".", "-"}

\* the normalized domain s is not of hostname shape: empty, without ".", with
\* an empty label or two adjacent separators, or with a final label that is
\* shorter than two characters or holds a character that is no letter
BadDomainShape(s) ==
    \/ s = <<>>
    \/ \A i \in 1..Len(s) : s[i] # "."
    \/ s[1] \in Separators
    \/ s[Len(s)] \in Separators
    \/ \E i \in 1..(Len(s)-1) : s[i] \in Separators /\ s[i+1] \in Separators
    \/ LET dots == { i \in 1..Len(s) : s[i] = "." }
           m == CHOOSE i \in dots : \A j \in dots : j <= i
       IN  \/ Len(s) - m < 2
           \/ \E k \in (m+1)..Len(s) : s[k] \notin Letters

\* C8: search_domain checks the lowercased, trimmed argument: when that form
\* is not of hostname shape the call raises ValidationError, issues no
\* request and leaves the cache alone; an accepted call works on that form.
C8_BadDomainShapeRejected ==
    [][(IsCall /\ last'.op = "search_domain")
       => /\ BadDomainShape(Strip(Lower(last'.arg)))
             => /\ last'.exc = "ValidationError"
                /\ last'.requests = 0
                /\ requests' = requests
                /\ cache' = cache
          /\ last'.exc # "ValidationError"
             => last'.params.value = Strip(Lower(last'.arg))
    ]_vars

\* C8 happens: a domain whose final label has one letter, written in capitals,
\* was rejected while the cache held an entry
C8_Witness ==
    /\ last.op = "search_domain"
    /\ last.arg = <<"a", ".", "B">>
    /\ last.exc = "ValidationError"
    /\ cache # <<>>

\* C9: for a phone string that the library cannot parse, _parse_phone_number
\* returns a PhoneNumber with is_valid false that keeps the string; and
\* search_phone with a phone whose PhoneNumber is not valid raises
\* ValidationError before any cache access or request.
C9_InvalidPhoneRejectedFirst ==
    [][(IsCall /\ last'.op = "search_phone")
       => /\ ~LibParse(last'.arg).ok
             => last'.phone = PhoneNumber(last'.arg, FALSE)
          /\ ~last'.phone.is_valid
             => /\ last'.exc = "ValidationError"
                /\ last'.lookups = 0
                /\ last'.requests = 0
                /\ requests' = requests
                /\ cache' = cache
    ]_vars

\* C9 happens: a string the library cannot parse was rejected, its PhoneNumber
\* keeping the string, while the cache held an entry
C9_Witness ==
    /\ last.op = "search_phone"
    /\ ~LibParse(last.arg).ok
    /\ last.arg # <<>>
    /\ last.phone.number = last.arg
    /\ ~last.phone.is_valid
    /\ last.exc = "ValidationError"
    /\ cache # <<>>

SpecificErrors ==
    {"AuthenticationError", "InsufficientBalanceError", "RateLimitError",
     "ServerError"}

\* C10: for an HTTP response, _make_request raises AuthenticationError on 401,
\* InsufficientBalanceError on 402, RateLimitError on 429 and ServerError on
\* every status from 500 to 599, each with the status code of the response;
\* each of the four is raised on its statuses only, and none comes with a
\* body returned to the caller.
C10_StatusToSpecificError ==
    (last.op = "_make_request" /\ last.resp.fail = "none")
    => LET st == last.resp.status
           expected ==
               IF st = 401 THEN "AuthenticationError"
               ELSE IF st = 402 THEN "InsufficientBalanceError"
               ELSE IF st = 429 THEN "RateLimitError"
               ELSE IF st \in 500..599 THEN "ServerError"
               ELSE "other"
       IN  /\ expected \in SpecificErrors
              => /\ last.exc = expected
                 /\ last.status_code = st
                 /\ last.body = ""
                 /\ last.ret = NoObject
           /\ expected = "other" => last.exc \notin SpecificErrors

\* C10 happens: the last status of the 5xx range came back as ServerError
C10_Witness ==
    /\ last.op = "_make_request"
    /\ last.resp.status = 599
    /\ last.exc = "ServerError"
    /\ last.status_code = 599

\* what a response of the service supplies: the members of a JSON body
Supplied(body, member) ==
    IF body # "json_balance" THEN 0
    ELSE IF member = "current_balance" THEN 5
    ELSE IF member = "required_credits" THEN 7
    ELSE 0

\* C11: for an HTTP response whose status is not 2xx and none of 401, 402,
\* 429, 5xx, _make_request raises SearchAPIError with the status code of
\* the response and, when the body is not empty, the parsed body; and a body
\* is returned to the caller for a 2xx response only.
C11_OtherStatusRaisesGeneric ==
    (last.op = "_make_request" /\ last.resp.fail = "none")
    => LET st == last.resp.status
       IN  /\ ( /\ st \notin 200..299
                /\ st \notin {401, 402, 429}
                /\ st \notin 500..599 )
              => /\ last.exc = "SearchAPIError"
                 /\ last.status_code = st
                 /\ last.resp.body \in JsonBodies => last.body = last.resp.body
           /\ last.exc = "" => st \in 200..299

\* C12: when the service answers 402 with a body that holds current_balance
\* and required_credits, the InsufficientBalanceError that _make_request
\* raises carries those two values.
C12_BalanceErrorCarriesFigures ==
    ( /\ last.op = "_make_request"
      /\ last.resp.fail = "none"
      /\ last.resp.status = 402
      /\ last.resp.body = "json_balance" )
    => /\ last.exc = "InsufficientBalanceError"
       /\ last.current_balance = Supplied(last.resp.body, "current_balance")
       /\ last.required_credits = Supplied(last.resp.body, "required_credits")

\* C13: when the HTTP call fails without a response, _make_request raises
\* NetworkError for a connection failure and TimeoutError for a timeout.
C13_TransportFailuresAreTyped ==
    (last.op = "_make_request" /\ last.resp.fail # "none")
    => /\ last.resp.fail = "connection" => last.exc = "NetworkError"
       /\ last.resp.fail = "timeout" => last.exc = "TimeoutError"

\* C14: a call of search_email, search_phone or search_domain issues at
\* most one HTTP request, whatever the outcome of the request, and none when
\* validation fails or the cache answers.
C14_AtMostOneRequestPerCall ==
    [][IsCall =>
        /\ requests' - requests \in {0, 1}
        /\ last'.requests = requests' - requests
        /\ (last'.exc = "ValidationError" \/ last'.hit) => requests' = requests
    ]_vars

\* C14 happens: the one request of a call met a connection failure and the
\* call ended without a second request
C14_Witness ==
    /\ last.op = "search_email"
    /\ last.resp.fail = "connection"
    /\ last.exc = "SearchAPIError"
    /\ last.requests = 1
    /\ requests = 1

\* C15: a search call whose 2xx response holds an "error" member raises
\* SearchAPIError, returns no object and leaves the cache as it was, so that
\* its key is still not visible; a call that ends in any error adds and
\* replaces no entry; and a call whose key is not visible issues a request.
C15_ErrorsLeaveCacheAlone ==
    [][IsCall =>
        /\ ( /\ last'.requests = 1
             /\ last'.resp.fail = "none"
             /\ last'.resp.status \in 200..299
             /\ last'.resp.body = "json_error" )
           => /\ last'.exc = "SearchAPIError"
              /\ last'.ret = NoObject
              /\ ~last'.stored
              /\ cache' = cache
              /\ ~CacheContains(cache', last'.key, now')
        /\ last'.exc # ""
           => /\ EntriesOf(cache') = EntriesOf(cache)
              /\ Len(cache') = Len(cache)
              /\ last'.ret = NoObject
        /\ (last'.key # <<>> /\ ~CacheContains(cache, last'.key, now))
           => /\ last'.requests = 1
              /\ requests' = requests + 1
    ]_vars

\* C15 happens: the key of the call had expired, the service reported an
\* error, and the expired entry is still the one in the cache
C15_Witness ==
    /\ last.resp.body = "json_error"
    /\ last.exc = "SearchAPIError"
    /\ last.stale
    /\ HasKey(cache, last.key)
    /\ Entry(cache, last.key).expires <= now

\* C16: the DomainSearchResult that a successful search_domain returns holds
\* one EmailSearchResult per item of the response's "results", in the order
\* of the response, each with the email of its item, and total_results is
\* the number of items (0 when "results" is absent or empty).
C16_DomainResultsInOrder ==
    (last.op = "search_domain" /\ last.exc = "" /\ last.ret # NoObject)
    => LET items == IF "results" \in DOMAIN last.data
                    THEN last.data["results"] ELSE <<>>
           result == heap[last.ret.id]
       IN  /\ result.domain = last.params.value
           /\ Len(result.results) = Len(items)
           /\ \A i \in 1..Len(items) :
                 result.results[i].email = items[i]["email"]
           /\ result.total_results = Len(items)

\* C16 happens: a response with two items for different emails was mapped
C16_Witness ==
    /\ last.op = "search_domain"
    /\ last.stored
    /\ heap[last.ret.id].total_results = 2
    /\ Len(last.data["results"]) = 2
    /\ heap[last.ret.id].results[1].email # heap[last.ret.id].results[2].email

\* C17: each EmailSearchResult of a domain result holds one PhoneNumber per
\* element of its item's "numbers", in order, and the item's date of birth.
C17_DomainItemsKeepNumbersAndDob ==
    (last.op = "search_domain" /\ last.exc = "" /\ last.ret # NoObject)
    => LET items == Get(last.data, "results", <<>>)
           result == heap[last.ret.id]
       IN  \A i \in 1..Len(items) :
              /\ result.results[i].phone_numbers =
                    ParsePhoneNumbers(Get(items[i], "numbers", <<>>))
              /\ result.results[i].dob = DateOfBirth(items[i])

\* C19: a result returned by a search operation shares no state with the
\* cache or with another caller: the content of the object that a cache hit
\* returns is the content the stored result was constructed with, whatever
\* the callers did to the results they were handed before.
C19_ResultsShareNoState ==
    [][(IsCall /\ last'.hit)
       => /\ last'.ret.id \in DOMAIN heap'
          /\ heap'[last'.ret.id] = last'.ret.made
    ]_vars

\* C18: threads that share one client cannot corrupt the cache: in every
\* interleaving of their calls the cache holds at most maxsize entries and at
\* most one entry for a key, as it does when every lookup and every
\* insertion runs alone.
C18_ConcurrentCallsKeepCacheSound ==
    /\ Len(cache) <= MaxSize
    /\ \A i, j \in 1..Len(cache) : cache[i].key = cache[j].key => i = j

\* C20: the session acquired at construction is released by the close
\* operation of the client: once the program has called close, in its
\* finally clause, the call has succeeded and the session is closed.
C20_CloseReleasesSession ==
    last.op = "close" => (last.exc = "" /\ session = "closed")

\* the caller's loop over what search_phone returned,
\* "for i, result in enumerate(phone_results, 1)": the results it visits,
\* or the TypeError of a value that is not a collection
Iterate(kind, content) ==
    IF kind = "list" THEN [exc |-> "", results |-> content]
    ELSE [exc |-> "TypeError", results |-> <<>>]

\* C21: a successful search_phone returns a collection of one or more
\* PhoneSearchResult objects, each with the PhoneNumber of the searched
\* number, in E.164 form and valid.
C21_PhoneSearchReturnsMatches ==
    (last.op = "search_phone" /\ last.exc = "" /\ last.ret # NoObject)
    => LET visited == Iterate(last.ret.kind, heap[last.ret.id])
       IN  /\ visited.exc = ""
           /\ Len(visited.results) >= 1
           /\ \A i \in 1..Len(visited.results) :
                 /\ visited.results[i].phone = last.phone
                 /\ last.phone.is_valid
                 /\ last.phone.number = <<"+", "1">> \o DigitsOf(last.phone.number)

\* C22: cache keys are built from canonical arguments: a search_phone call
\* whose number, in E.164 form, and whose flags are those of an unexpired
\* cached phone result, and a search_domain call whose domain, lower-cased
\* and stripped, is that of an unexpired cached domain result, issue no
\* request and return the cached result.
C22_CanonicalArgumentsShareEntry ==
    [][\A i \in 1..Len(cache) :
          LET val == cache[i].val
          IN  (/\ IsCall
               /\ last'.exc # "ValidationError"
               /\ CacheContains(cache, cache[i].key, now)
               /\ \/ /\ last'.op = "search_phone"
                     /\ val.kind = "PhoneSearchResult"
                     /\ val.subject = last'.phone.number
                     /\ val.params.house_value = last'.house_value
                     /\ val.params.extra_info = last'.extra_info
                  \/ /\ last'.op = "search_domain"
                     /\ val.kind = "DomainSearchResult"
                     /\ val.subject = Strip(Lower(last'.arg)))
              => (last'.requests = 0 /\ last'.ret = val)
    ]_vars

\* the components of an address, as a reader of the text splits it: the
\* pieces between commas that hold a character other than whitespace
Components(address_str) ==
    SelectSeq(SplitOn(address_str, {","}),
              LAMBDA piece : \E i \in 1..Len(piece) : piece[i] \notin Whitespace)

\* the position of the state in the words of the last component: before a
\* final all-digit word, otherwise the last word
StatePosition(words) ==
    IF Len(words) > 1 /\ IsDigit(words[Len(words)])
    THEN Len(words) - 1 ELSE Len(words)

\* out is address_str normalized: one component per component of
\* address_str, in order, joined with ", "; in each the words of the
\* component, in order, joined with " "; a word whose lower case is a key
\* of the street-suffix table is replaced by its expansion, a word in the
\* state position of the last component whose lower case is in states by
\* its upper case, and every other word is title-cased.
Normalized(address_str, out, states) ==
    LET components == Components(address_str)
        pieces == IF out = <<>> THEN <<>> ELSE SplitOn(out, {","})
    IN  /\ Len(pieces) = Len(components)
        /\ \A i \in 1..Len(components) :
              LET words == Words(components[i])
                  formatted == Words(pieces[i])
              IN  /\ pieces[i] = (IF i > 1 THEN <<" ">> ELSE <<>>)
                                     \o Join(formatted, <<" ">>)
                  /\ Len(formatted) = Len(words)
                  /\ \A j \in 1..Len(words) :
                        formatted[j] =
                           IF \E p \in STREET_TYPE_MAP : p[1] = Lower(words[j])
                           THEN TableGet(STREET_TYPE_MAP, Lower(words[j]), <<>>)
                           ELSE IF /\ i = Len(components)
                                   /\ j = StatePosition(words)
                                   /\ Lower(words[j]) \in states
                           THEN Upper(words[j])
                           ELSE Title(words[j])

\* C23: address normalization splits the input on commas, drops the empty
\* components, replaces each word whose lower case is a key of the
\* street-suffix table by its expansion and title-cases every other word
\* except a state abbreviation in the state position of the last component,
\* which is put in upper case; components and words keep their order and
\* the components are joined with ", ".
C23_WordsExpandedOrTitled ==
    last.op = "_format_address" => Normalized(last.arg, last.out, StateKeys)

\* C23 happens: an address of two components was normalized, with a street
\* suffix expanded and another word title-cased
C23_Witness ==
    /\ last.op = "_format_address"
    /\ last.arg = <<"1","2","3"," ","m","a","i","n"," ","s","t",","," ","a","n","y","t",
                    "o","w","n",","," ","c","a"," ","1","2","3","4","5">>
    /\ last.out = <<"1","2","3"," ","M","a","i","n"," ","S","t","r","e","e","t",
                    ","," ","A","n","y","t","o","w","n",","," ","C","A"," ",
                    "1","2","3","4","5">>

\* C23 as stated: every word that is not a street suffix is title-cased
C23_EveryOtherWordTitled ==
    last.op = "_format_address" => Normalized(last.arg, last.out, {})

\* C24: when the last component of an address ends with an all-digit word
\* that follows a state abbreviation, in any case, the normalized address
\* has the upper-case code of the state in that place, for every state
\* abbreviation of the table.
C24_StateBeforeZipIsCanonical ==
    (last.op = "_format_address" /\ Components(last.arg) # <<>>)
    => LET components == Components(last.arg)
           words == Words(components[Len(components)])
           m == Len(words)
           pieces == SplitOn(last.out, {","})
           formatted == Words(pieces[Len(pieces)])
       IN  (m > 1 /\ IsDigit(words[m]) /\ Lower(words[m - 1]) \in StateKeys)
           => /\ Len(formatted) = m
              /\ formatted[m - 1] =
                    TableGet(STATE_ABBREVIATIONS, Lower(words[m - 1]), <<>>)

\* a step in which the fetch_email_info of email calls search_email; step'
\* then records the answer and what the pass did with it
AttemptBy(email) == workers[email].pc = "call" /\ workers'[email] # workers[email]

\* the lines of the output file that are about email
LinesOf(email) == SelectSeq(output, LAMBDA l : l.email = email)

\* C25: in fetch_email_info an error that is never retried (ValidationError,
\* AuthenticationError, InsufficientBalanceError) ends the processing of
\* its email at once, whatever its message: no further call, no delay, and
\* one error line for the email appended to the output file.
C25_NeverRetriedEndsAtOnce ==
    [][\A email \in Emails :
          (AttemptBy(email) /\ step'.outcome.raised
              /\ step'.outcome.cls \in NeverRetried)
          => /\ workers'[email].pc = "done"
             /\ step'.delay = 0
             /\ output' = Append(output, [email |-> email, line |-> "error"])
    ]_vars

\* what C26 says of one pass of the loop: a transient error before the
\* last pass is followed by a delay, a success ends the loop, and a failure
\* of the last pass writes one error line
RetryRule(email) ==
    LET answer == step'.outcome
        attempt == workers[email].attempt
    IN  /\ (answer.raised /\ answer.cls \in Transient /\ attempt < MAX_RETRIES - 1)
           => /\ workers'[email] = Worker("sleep", attempt, workers[email].calls + 1)
              /\ step'.delay > 0
              /\ output' = output
        /\ ~answer.raised => workers'[email].pc = "done"
        /\ (answer.raised /\ attempt = MAX_RETRIES - 1)
           => /\ workers'[email].pc = "done"
              /\ output' = Append(output, [email |-> email, line |-> "error"])

\* a sleep is followed by the next pass, which calls search_email once
OneFurtherAttempt(email) ==
    /\ workers[email].pc = "sleep" /\ workers'[email] # workers[email]
       => workers'[email] = Worker("call", workers[email].attempt + 1,
                                   workers[email].calls)
    /\ AttemptBy(email) => workers'[email].calls = workers[email].calls + 1

\* C26: fetch_email_info calls search_email at most MAX_RETRIES times per
\* email, whatever search_email answers; a transient error on a pass before
\* the last is followed by a delay and one further attempt, a success ends
\* the loop with no further attempt, and when the last attempt fails too
\* one error line is written for the email.
C26_BoundedRetries ==
    [][\A email \in Emails :
          /\ workers'[email].calls <= MAX_RETRIES
          /\ AttemptBy(email) => RetryRule(email)
          /\ OneFurtherAttempt(email)
    ]_vars

\* C27: fetch_email_info appends at most one line for its email to the
\* output file, whatever search_email answers on each attempt, so the file
\* gains at most one line per email of the list.
C27_AtMostOneLinePerEmail ==
    /\ \A email \in Emails : Len(LinesOf(email)) <= 1
    /\ Len(output) <= MaxEmails

\* C27 happens: both emails are done, one after MAX_RETRIES failed attempts
\* and with an error line, the other with a result line
C27_Witness ==
    /\ \A email \in Emails : workers[email].pc = "done"
    /\ \E email \in Emails : workers[email].calls = MAX_RETRIES
    /\ { output[i].line : i \in 1..Len(output) } = {"result", "error"}

\* C28: a call of search_email, search_phone or search_domain ends with a
\* result, a ValidationError or a SearchAPIError (or a subclass of it): no
\* other exception escapes to the caller, whatever the status, the body of
\* an error response and the shape of the JSON of a 2xx response.
C28_OnlyLibraryErrorsEscape ==
    last.op \in {"search_email", "search_phone", "search_domain"}
    => \/ last.exc = "" /\ last.ret # NoObject
       \/ last.exc \in SearchAPIErrors

\* C29: a cache hit never fails: whenever the membership test of a search
\* operation is true, the read that follows it returns the stored result,
\* even when the entry's TTL runs out between the two (no KeyError reaches
\* the caller).
C29_CacheHitNeverFails ==
    (last.op \in {"search_email", "search_phone", "search_domain"}
        /\ last.lookups = 2)
    => (last.exc = "" /\ last.hit /\ last.ret # NoObject)

\* C30: threads that call search_email at the same time with the same email
\* and flags while the key is not cached issue one request between them and
\* all receive the same result object: no two calls that are about to
\* store hold different objects for one key.
C30_OneRequestForConcurrentCalls ==
    \A th, other \in Threads :
        (/\ threads[th].pc \in {"inserting", "storing"}
         /\ threads[other].pc \in {"inserting", "storing"}
         /\ threads[th].email = threads[other].email)
        => threads[th].result = threads[other].result

=============================================================================
